---- MODULE Spec2Model ----
(***************************************************************************)
(* Model of the notification agent (agent/src): the reconnecting WebSocket *)
(* session loop (client.rs), the alert dispatcher task (main.rs) and the   *)
(* pending-confirmation registry with its per-alert timeout tasks          *)
(* (handler.rs).                                                           *)
(*                                                                         *)
(* Time is kept as the seconds left on every armed timer (heartbeat        *)
(* interval, per-alert sleep, reconnect sleep).  Tick advances time to the *)
(* next instant at which one of them expires; a task that is able to run   *)
(* at the current instant runs before time moves, except handle_alert,     *)
(* whose presentation calls take arbitrary time.                           *)
(***************************************************************************)
EXTENDS Naturals, Integers, Sequences, FiniteSets, TLC

\* ---------------------------------------------------------------- bounds
\* alert ids; the server takes fresh ids in increasing order
Ids == {1, 2}
\* alert frames the server sends
MaxAlerts == 2
\* alert frames the server sends in the burst scenario
MaxBurst == 3
\* confirm_alert calls the user makes
MaxConfirms == 1
\* connection attempts that are made
MaxAttempts == 2
\* capacity of both channels (100 in main.rs)
QCap == 1
\* capacity of the confirmation channel in the queueing scenario
ConfCapFifo == 2
\* capacity of the alert channel in the alert-order scenario
AlertCapOrder == 2
\* frames of a connection that are recorded
MaxLog == 5
\* the session age saturates here
MaxAge == 90
\* missed heartbeat ticks that are remembered
MaxMissed == 2
\* the length of a reconnect sleep saturates here
MaxSlept == 10
\* calls of play_sound_async that are remembered
MaxPlayed == 2
\* alerts the server sends in the sound scenario
MaxSounds == 2
\* alerts the server sends in the flood scenario
MaxFlood == 5
\* confirm_alert calls in the flood scenario and in the two-calls scenario
MaxConfirmsFlood == 2

\* ------------------------------------------------------ program constants
TimeoutSecs == 300
HeartbeatSecs == 30
ReconnectSecs == 5
ClientId == "client-1"
Hostname == "host-1"
Username == "user-1"

VARIABLES
    \* --- WebSocketClient::run / connect_and_handle
    spc,          \* position of the session task
    attempts,     \* number of the current connection attempt
    outcome,      \* how the last attempt ended: "none", "Closed", "Failed"
    wakeIn,       \* seconds left of the reconnect sleep
    hbIn,         \* seconds until the next heartbeat tick (<= 0: due)
    inAlert,      \* alert the session is blocked sending to alert_tx
    outConf,      \* confirmation received from confirmation_rx, being written
    written,      \* first MaxLog frames written on the current connection
    sessAge,      \* seconds since the session entered its select loop
    slept,        \* seconds since the last attempt ended
    idle,         \* no inbound frame, no outbound confirmation in this session
    ignored,      \* the session's last step ignored an unexpected message
    \* --- channels (main.rs)
    alert_q,
    conf_q,
    \* --- dispatcher task (main.rs) running AlertHandler::handle_alert
    dpc,
    dAlert,
    \* --- AlertHandler
    pending,      \* pending_confirmations: id -> Alert (NoAlert when absent)
    lock,         \* holder of the pending_confirmations mutex across an await
    timers,       \* spawned timeout tasks still sleeping or waiting to run
    \* --- environment budget
    alertBudget,  \* alert frames the server sends in this run
    nAlertsIn,    \* alert frames received so far
    recvd,        \* the alerts decoded by the session, in the order received
    alertCap,     \* capacity of the alert channel in this run
    idsUsed,      \* alert ids the server has used so far (1..idsUsed)
    nConfirmCalls,
    confCap,      \* capacity of the confirmation channel in this run
    confirmBudget, \* confirm_alert calls the user makes in this run
    \* --- history
    nreg,         \* registrations (inserts) so far
    regAge,       \* id -> seconds since the insert that made the stored entry
    created,      \* id -> number of inserts that found the id absent
    madeT,        \* id -> Confirmations built by timeout tasks
    madeC,        \* id -> Confirmations built by confirm_alert
    lastEvent,    \* id -> "handled" (with requires_confirmation) or "resolved"
    lastFire,     \* the last timeout task that ran, and what it found
    sent,         \* alert ids of the Confirmations, in the order they entered
                  \* the outbound queue
    lastHandle,   \* the last handle_alert call: whether sound or notification
                  \* failed, and what it returned
    lastConfirm,  \* the last confirm_alert call: its id, whether it found the
                  \* entry, and what it returned ("suspended" while in send())
    \* --- the sound of an alert (messages.rs, handler.rs)
    played        \* the first MaxPlayed calls of play_sound_async: the alert's
                  \* level and sound_file and the file name that was passed

sessVars == <<spc, attempts, outcome, wakeIn, hbIn, inAlert, outConf,
              written, sessAge, slept, idle, ignored>>
chanVars == <<alert_q, conf_q>>
dispVars == <<dpc, dAlert>>
regVars == <<pending, lock, timers>>
envVars == <<alertBudget, nAlertsIn, recvd, alertCap, idsUsed, nConfirmCalls,
             confCap, confirmBudget>>
histVars == <<nreg, regAge, created, madeT, madeC, lastEvent, lastFire, sent,
              lastHandle, lastConfirm>>
progVars == <<sessVars, chanVars, dispVars, regVars, envVars, histVars>>
soundVars == <<played>>
vars == <<progVars, soundVars>>

\* ------------------------------------------------------------ data model
\* Option<String>
None == <<>>
Some(x) == <<x>>

AlertLevels == {"Info", "Warning", "Critical", "Emergency"}
\* file names a server puts into sound_file, the empty string among them
SoundNames == {"", "custom.wav", "alarm_critical.wav", "notification.wav"}
SoundFiles == {None} \cup {Some(n) : n \in SoundNames}

\* (title, message and timestamp are not part of the model)
Alerts == [id : Ids, requires_confirmation : BOOLEAN, level : AlertLevels,
           sound_file : SoundFiles]
NoAlert == [id |-> 0, requires_confirmation |-> FALSE, level |-> "Info",
            sound_file |-> None]
\* the alerts of the scenarios that leave the sound out: one level, no
\* sound_file
QuietAlerts == {a \in Alerts : a.level = "Info" /\ a.sound_file = None}

\* (confirmed_at, the wall-clock stamp, is not part of the model)
ConfirmationByHost(alert_id) ==
    [alert_id |-> alert_id, client_id |-> Hostname,
     hostname |-> Hostname, username |-> Username]
Confirmation(alert_id) ==
    [alert_id |-> alert_id, client_id |-> ClientId,
     hostname |-> Hostname, username |-> Username]
NoConf == [alert_id |-> 0, client_id |-> "", hostname |-> "", username |-> ""]

NoBody == [none |-> TRUE]

\* Message enum (serde: internally tagged by "type", snake_case)
MsgAlert(a) == [type |-> "alert", body |-> a]
MsgConfirmation(c) == [type |-> "confirmation", body |-> c]
MsgHeartbeat == [type |-> "heartbeat", body |-> NoBody]
MsgRegister == [type |-> "register",
                body |-> [client_id |-> ClientId, hostname |-> Hostname]]
DecodeError == [type |-> "error", body |-> NoBody]

KnownTags == {"alert", "confirmation", "heartbeat", "register"}

\* A text frame: is it well-formed JSON, which "type" tag it carries
\* ("missing" when there is none), and whether the payload fields of the
\* variant are present with the right types.
Encode(m) == [json |-> TRUE, type |-> m.type, payload_ok |-> TRUE, body |-> m.body]

Decode(f) ==
    IF ~f.json THEN DecodeError
    ELSE IF f.type \notin KnownTags THEN DecodeError
    ELSE IF f.type = "heartbeat" THEN MsgHeartbeat
    ELSE IF ~f.payload_ok THEN DecodeError
    ELSE [type |-> f.type, body |-> f.body]

AlertFrames == {Encode(MsgAlert(a)) : a \in QuietAlerts}
SoundFrames == {Encode(MsgAlert(a)) : a \in Alerts}
UnexpectedFrames ==
    {Encode(MsgRegister), Encode(MsgConfirmation(NoConf))}
MalformedFrames ==
    { [json |-> FALSE, type |-> "alert", payload_ok |-> FALSE, body |-> NoBody],
      [json |-> TRUE, type |-> "missing", payload_ok |-> TRUE, body |-> NoBody],
      [json |-> TRUE, type |-> "bogus", payload_ok |-> TRUE, body |-> NoBody],
      [json |-> TRUE, type |-> "alert", payload_ok |-> FALSE, body |-> NoBody] }
TextFrames ==
    AlertFrames \cup UnexpectedFrames \cup MalformedFrames \cup {Encode(MsgHeartbeat)}
AllTextFrames == TextFrames \cup SoundFrames

NoHolder == [kind |-> "none", conf |-> NoConf]
NoConfirm == [id |-> 0, found |-> FALSE, ret |-> "none"]
NoHandle == [failed |-> FALSE, ret |-> "none"]
NoFire == [id |-> 0, n |-> 0, confirmed |-> FALSE, raced |-> FALSE,
           found |-> FALSE, age |-> 0, connected |-> FALSE]

Min(S) == CHOOSE x \in S : \A y \in S : x <= y
Least(a, b) == IF a <= b THEN a ELSE b
Greatest(a, b) == IF a >= b THEN a ELSE b

\* ------------------------------------------------------------------ Init
Start ==
    /\ spc = "connecting"
    /\ attempts = 1
    /\ outcome = "none"
    /\ wakeIn = 0
    /\ hbIn = 0
    /\ inAlert = NoAlert
    /\ outConf = NoConf
    /\ written = <<>>
    /\ sessAge = 0
    /\ slept = 0
    /\ idle = TRUE
    /\ ignored = FALSE
    /\ alert_q = <<>>
    /\ conf_q = <<>>
    /\ dpc = "recv"
    /\ dAlert = NoAlert
    /\ pending = [i \in Ids |-> NoAlert]
    /\ lock = NoHolder
    /\ timers = {}
    /\ nAlertsIn = 0
    /\ recvd = <<>>
    /\ idsUsed = 0
    /\ nConfirmCalls = 0
    /\ nreg = 0
    /\ regAge = [i \in Ids |-> 0]
    /\ created = [i \in Ids |-> 0]
    /\ madeT = [i \in Ids |-> 0]
    /\ madeC = [i \in Ids |-> 0]
    /\ lastEvent = [i \in Ids |-> "none"]
    /\ lastFire = NoFire
    /\ sent = <<>>
    /\ lastHandle = NoHandle
    /\ lastConfirm = NoConfirm
    /\ played = <<>>

Init ==
    /\ Start
    /\ alertBudget = MaxAlerts /\ alertCap = QCap /\ confCap = QCap
    /\ confirmBudget = MaxConfirms

\* the session is inside the loop of connect_and_handle
InLoop == spc \in {"select", "send_alert", "write_conf", "write_hb"}

\* ------------------------------------------------- AlertHandler (handler.rs)
\* HashMap operations on pending_confirmations
ContainsKeyAlways(p, id) == TRUE
ContainsKey(p, id) == p[id] # NoAlert
Insert(p, id, a) == [p EXCEPT ![id] = a]
RemoveNothing(p, id) == p
Remove(p, id) == [p EXCEPT ![id] = NoAlert]
PendingIds == {i \in Ids : ContainsKey(pending, i)}
PendingCount == Cardinality(PendingIds)

\* tx.send(confirmation).await with the registry lock still held: the
\* Confirmation enters the queue when there is room, otherwise the task
\* stays suspended in send(), holding the lock.
SendConfirmation(kind, c) ==
    IF Len(conf_q) < confCap
    THEN /\ conf_q' = Append(conf_q, c)
         /\ sent' = Append(sent, c.alert_id)
         /\ lock' = NoHolder
    ELSE /\ lock' = [kind |-> kind, conf |-> c]
         /\ UNCHANGED <<conf_q, sent>>

\* The suspended send() of the lock holder completes.
HolderSend ==
    /\ lock # NoHolder
    /\ Len(conf_q) < confCap
    /\ conf_q' = Append(conf_q, lock.conf)
    /\ sent' = Append(sent, lock.conf.alert_id)
    /\ lastConfirm' = IF lock.kind = "confirm"
                      THEN [lastConfirm EXCEPT !.ret = "Ok"] ELSE lastConfirm
    /\ lock' = NoHolder
    /\ UNCHANGED <<sessVars, alert_q, dispVars, pending, timers, envVars,
                   nreg, regAge, created, madeT, madeC, lastEvent, lastFire,
                   lastHandle>>
    /\ UNCHANGED soundVars

\* serial of the timeout task armed by the insert that made the stored entry
EntryTimer(id) ==
    LET ns == {t.n : t \in {u \in timers : u.id = id}} IN
    IF ns = {} THEN 0 ELSE CHOOSE n \in ns : \A m \in ns : m <= n

\* The timeout task spawned by handle_alert, after its sleep(300).
TimerFire(t) ==
    /\ t \in timers
    /\ t.left = 0
    /\ lock = NoHolder
    /\ timers' = timers \ {t}
    /\ lastFire' = [id |-> t.id, n |-> t.n, confirmed |-> t.confirmed,
                    raced |-> t.raced, found |-> pending[t.id] # NoAlert,
                    age |-> regAge[t.id],
                    connected |-> InLoop]
    /\ IF ContainsKey(pending, t.id)
       THEN /\ pending' = Remove(pending, t.id)
            /\ SendConfirmation("timer", Confirmation(t.id))
            /\ madeT' = [madeT EXCEPT ![t.id] = @ + 1]
            /\ regAge' = [regAge EXCEPT ![t.id] = 0]
            /\ lastEvent' = [lastEvent EXCEPT ![t.id] = "resolved"]
       ELSE UNCHANGED <<pending, conf_q, lock, madeT, regAge, lastEvent, sent>>
    /\ UNCHANGED <<sessVars, alert_q, dispVars, envVars, nreg, created, madeC,
                   lastHandle, lastConfirm>>
    /\ UNCHANGED soundVars

\* confirm_alert: what the branch that finds no entry returns
MissResultErr == "Err"
MissResult == "Ok"

\* AlertHandler::confirm_alert(alert_id), called by the user interface.
\* (The timeout task armed for the removed entry is marked: confirmed, and
\* raced when its sleep was already over at that instant.)
ConfirmAlert(alert_id) ==
    /\ nConfirmCalls < confirmBudget
    /\ lock = NoHolder
    /\ nConfirmCalls' = nConfirmCalls + 1
    /\ IF ContainsKey(pending, alert_id)
       THEN /\ pending' = Remove(pending, alert_id)
            /\ SendConfirmation("confirm", Confirmation(alert_id))
            /\ lastConfirm' = [id |-> alert_id, found |-> TRUE,
                               ret |-> IF lock' = NoHolder
                                       THEN "Ok" ELSE "suspended"]
            /\ madeC' = [madeC EXCEPT ![alert_id] = @ + 1]
            /\ regAge' = [regAge EXCEPT ![alert_id] = 0]
            /\ lastEvent' = [lastEvent EXCEPT ![alert_id] = "resolved"]
            /\ timers' = {IF t.id = alert_id /\ t.n = EntryTimer(alert_id)
                          THEN [t EXCEPT !.confirmed = TRUE,
                                         !.raced = (t.left = 0)]
                          ELSE t : t \in timers}
       ELSE /\ lastConfirm' = [id |-> alert_id, found |-> FALSE,
                               ret |-> MissResult]
            /\ UNCHANGED <<pending, conf_q, lock, madeC, regAge, lastEvent,
                           timers, sent>>
    /\ UNCHANGED <<sessVars, alert_q, dispVars, alertBudget, nAlertsIn,
                   recvd, alertCap, idsUsed, confCap, confirmBudget, nreg, created,
                   madeT,
                   lastFire,
                   lastHandle>>
    /\ UNCHANGED soundVars

\* ------------------------------------------- dispatcher task (main.rs)
DispRecvLast ==
    /\ dpc = "recv"
    /\ alert_q # <<>>
    /\ dAlert' = alert_q[Len(alert_q)]
    /\ alert_q' = SubSeq(alert_q, 1, Len(alert_q) - 1)
    /\ dpc' = "handle"
    /\ UNCHANGED <<sessVars, conf_q, regVars, envVars, histVars>>
    /\ UNCHANGED soundVars

\* while let Some(alert) = alert_rx.recv().await
DispRecv ==
    /\ dpc = "recv"
    /\ alert_q # <<>>
    /\ dAlert' = Head(alert_q)
    /\ alert_q' = Tail(alert_q)
    /\ dpc' = "handle"
    /\ UNCHANGED <<sessVars, conf_q, regVars, envVars, histVars>>
    /\ UNCHANGED soundVars

\* Alert::get_sound_file
GetSoundFileByLevel(alert) ==
    CASE alert.level \in {"Emergency", "Critical"} -> "alarm_critical.wav"
      [] alert.level = "Warning" -> "alarm_warning.wav"
      [] alert.level = "Info" -> "notification.wav"

GetSoundFile(alert) ==
    IF alert.sound_file # None
    THEN alert.sound_file[1]
    ELSE CASE alert.level \in {"Emergency", "Critical"} -> "alarm_critical.wav"
           [] alert.level = "Warning" -> "alarm_warning.wav"
           [] alert.level = "Info" -> "notification.wav"

\* AudioPlayer::play_sound_async(filename): a thread is started for the file
PlaySoundAsync(alert, filename) ==
    IF Len(played) < MaxPlayed
    THEN Append(played, [level |-> alert.level, sound_file |-> alert.sound_file,
                         filename |-> filename])
    ELSE played

\* handle_alert: `if alert.requires_confirmation`
ShouldTrackAlways(alert) == TRUE
ShouldTrack(alert) == alert.requires_confirmation

\* handle_alert: does it go on after the presentation calls?  The sound is
\* played on its own thread, which logs its error; a show_notification
\* error is logged, not returned.
ProceedsIfShown(soundOk, shown) == shown
Proceeds(soundOk, shown) == TRUE

\* AlertHandler::handle_alert(alert), up to its first await: start the sound
\* of the alert and show the notification; then, when confirmation is
\* required, ask for the registry lock, otherwise return Ok.
HandleAlert ==
    /\ dpc = "handle"
    /\ played' = PlaySoundAsync(dAlert, GetSoundFile(dAlert))
    /\ \E soundOk \in BOOLEAN, shown \in BOOLEAN :
          IF Proceeds(soundOk, shown) /\ ShouldTrack(dAlert)
          THEN /\ lastHandle' = [failed |-> ~(soundOk /\ shown),
                                 ret |-> "none"]
               /\ dpc' = "lock"
               /\ dAlert' = dAlert
          ELSE /\ lastHandle' = [failed |-> ~(soundOk /\ shown),
                                 ret |-> IF Proceeds(soundOk, shown)
                                         THEN "Ok" ELSE "Err"]
               /\ dpc' = "recv"
               /\ dAlert' = NoAlert
    /\ UNCHANGED <<sessVars, chanVars, regVars, envVars, nreg, regAge, created,
                   madeT, madeC, lastEvent, lastFire, sent, lastConfirm>>

\* handle_alert, from the lock on: insert the alert under its id, spawn the
\* timeout task, return Ok.
TrackAlert ==
    /\ dpc = "lock"
    /\ lock = NoHolder
    /\ pending' = Insert(pending, dAlert.id, dAlert)
    /\ timers' = timers \cup
          {[id |-> dAlert.id, left |-> TimeoutSecs,
            n |-> nreg + 1, confirmed |-> FALSE, raced |-> FALSE]}
    /\ nreg' = nreg + 1
    /\ regAge' = [regAge EXCEPT ![dAlert.id] = 0]
    /\ created' = [created EXCEPT ![dAlert.id] =
                      IF pending[dAlert.id] # NoAlert THEN @ ELSE @ + 1]
    /\ lastEvent' = [lastEvent EXCEPT ![dAlert.id] = "handled"]
    /\ lastHandle' = [lastHandle EXCEPT !.ret = "Ok"]
    /\ dpc' = "recv"
    /\ dAlert' = NoAlert
    /\ UNCHANGED soundVars
    /\ UNCHANGED <<sessVars, chanVars, lock, envVars, madeT, madeC, lastFire,
                   sent, lastConfirm>>

\* ------------------------------------------ WebSocketClient (client.rs)

\* the transport accepts a frame (only the first MaxLog are recorded)
Write(w, m) == IF Len(w) < MaxLog THEN Append(w, Encode(m)) ELSE w

\* run(): the sleep between two attempts
ReconnectDelayGrowing == ReconnectSecs * attempts
ReconnectDelay == ReconnectSecs

\* connect_and_handle returns to run(): Ok(()) is "Closed", Err is "Failed";
\* run() logs the outcome and starts its sleep.
Terminate(o) ==
    /\ spc' = "sleeping"
    /\ outcome' = o
    /\ wakeIn' = ReconnectDelay
    /\ hbIn' = 0
    /\ inAlert' = NoAlert
    /\ outConf' = NoConf
    /\ sessAge' = 0
    /\ slept' = 0
    /\ idle' = TRUE
    /\ ignored' = FALSE
    /\ UNCHANGED <<attempts, written>>

\* run(): the sleep is over, loop
Reconnect ==
    /\ spc = "sleeping"
    /\ wakeIn = 0
    /\ attempts < MaxAttempts
    /\ spc' = "connecting"
    /\ attempts' = attempts + 1
    /\ outcome' = "none"
    /\ slept' = 0
    /\ ignored' = FALSE
    /\ UNCHANGED <<wakeIn, hbIn, inAlert, outConf, written, sessAge, idle,
                   chanVars, dispVars, regVars, envVars, histVars>>
    /\ UNCHANGED soundVars

\* connect_async succeeds
Connect ==
    /\ spc = "connecting"
    /\ spc' = "registering"
    /\ written' = <<>>
    /\ ignored' = FALSE
    /\ UNCHANGED <<attempts, outcome, wakeIn, hbIn, inAlert, outConf,
                   sessAge, slept, idle, chanVars, dispVars, regVars, envVars,
                   histVars>>
    /\ UNCHANGED soundVars

ConnectFail ==
    /\ spc = "connecting"
    /\ Terminate("Failed")
    /\ UNCHANGED <<chanVars, dispVars, regVars, envVars, histVars>>
    /\ UNCHANGED soundVars

\* tokio::time::interval: the first tick completes immediately
FirstTickIn == 0

SendRegisterOmitted ==
    /\ spc = "registering"
    /\ hbIn' = FirstTickIn
    /\ sessAge' = 0
    /\ idle' = TRUE
    /\ ignored' = FALSE
    /\ spc' = "select"
    /\ UNCHANGED <<attempts, outcome, wakeIn, slept, inAlert, outConf, written,
                   chanVars, dispVars, regVars, envVars, histVars>>
    /\ UNCHANGED soundVars

\* write.send(register) succeeds; interval(30 s) is created and the select
\* loop is entered.
SendRegister ==
    /\ spc = "registering"
    /\ written' = Write(written, MsgRegister)
    /\ hbIn' = FirstTickIn
    /\ sessAge' = 0
    /\ idle' = TRUE
    /\ ignored' = FALSE
    /\ spc' = "select"
    /\ UNCHANGED <<attempts, outcome, wakeIn, slept, inAlert, outConf, chanVars,
                   dispVars, regVars, envVars, histVars>>
    /\ UNCHANGED soundVars

SendRegisterFail ==
    /\ spc = "registering"
    /\ Terminate("Failed")
    /\ UNCHANGED <<chanVars, dispVars, regVars, envVars, histVars>>
    /\ UNCHANGED soundVars

\* what handle_server_message returns for a Register or a Confirmation
UnexpectedResultErr == "Err"
UnexpectedResult == "Ok"

\* Some(Ok(Text(text))): handle_server_message(text, alert_tx).await?
RecvText(f) ==
    /\ spc = "select"
    /\ f \in AllTextFrames
    /\ LET message == Decode(f) IN
       CASE message.type = "error" ->
               /\ Terminate("Failed")
               /\ UNCHANGED <<alert_q, alertBudget, nAlertsIn, recvd, idsUsed>>
         [] message.type = "alert" ->
               /\ nAlertsIn < alertBudget
               /\ message.body.id <= idsUsed + 1
               /\ nAlertsIn' = nAlertsIn + 1
               /\ recvd' = Append(recvd, message.body)
               /\ idsUsed' = Greatest(idsUsed, message.body.id)
               /\ idle' = FALSE
               /\ ignored' = FALSE
               /\ IF Len(alert_q) < alertCap
                  THEN /\ alert_q' = Append(alert_q, message.body)
                       /\ UNCHANGED <<spc, inAlert>>
                  ELSE /\ spc' = "send_alert"
                       /\ inAlert' = message.body
                       /\ UNCHANGED alert_q
               /\ UNCHANGED <<attempts, outcome, wakeIn, hbIn, outConf,
                              written, sessAge, slept, alertBudget>>
         [] message.type = "heartbeat" ->
               /\ idle' = FALSE
               /\ ignored' = FALSE
               /\ UNCHANGED <<spc, attempts, outcome, wakeIn, hbIn, inAlert,
                              outConf, written, sessAge, slept, alert_q, alertBudget,
                              nAlertsIn, recvd, idsUsed>>
         [] OTHER ->
               /\ IF UnexpectedResult = "Ok"
                  THEN /\ idle' = FALSE
                       /\ ignored' = TRUE
                       /\ UNCHANGED <<spc, attempts, outcome, wakeIn, hbIn,
                                      inAlert, outConf, written, sessAge, slept>>
                  ELSE Terminate("Failed")
               /\ UNCHANGED <<alert_q, alertBudget, nAlertsIn, recvd, idsUsed>>
    /\ UNCHANGED <<conf_q, dispVars, regVars, nConfirmCalls, alertCap, confCap,
                   confirmBudget,
                   histVars>>
    /\ UNCHANGED soundVars

\* the suspended alert_tx.send(alert) completes
AlertSend ==
    /\ spc = "send_alert"
    /\ Len(alert_q) < alertCap
    /\ alert_q' = Append(alert_q, inAlert)
    /\ inAlert' = NoAlert
    /\ spc' = "select"
    /\ ignored' = FALSE
    /\ UNCHANGED <<attempts, outcome, wakeIn, hbIn, outConf, written,
                   sessAge, slept, idle, conf_q, dispVars, regVars, envVars,
                   histVars>>
    /\ UNCHANGED soundVars

RecvCloseCancelsTimers ==
    /\ spc = "select"
    /\ Terminate("Closed")
    /\ timers' = {}
    /\ UNCHANGED <<chanVars, dispVars, pending, lock, envVars, histVars>>
    /\ UNCHANGED soundVars

RecvCloseDropsQueue ==
    /\ spc = "select"
    /\ Terminate("Closed")
    /\ conf_q' = <<>>
    /\ UNCHANGED <<alert_q, dispVars, regVars, envVars, histVars>>
    /\ UNCHANGED soundVars

\* Some(Ok(Close)) or None from read.next(): break, Ok(())
RecvClose ==
    /\ spc = "select"
    /\ Terminate("Closed")
    /\ UNCHANGED <<chanVars, dispVars, regVars, envVars, histVars>>
    /\ UNCHANGED soundVars

RecvErrClosed ==
    /\ spc = "select"
    /\ Terminate("Closed")
    /\ UNCHANGED <<chanVars, dispVars, regVars, envVars, histVars>>
    /\ UNCHANGED soundVars

\* Some(Err(e)) from read.next()
RecvErr ==
    /\ spc = "select"
    /\ Terminate("Failed")
    /\ UNCHANGED <<chanVars, dispVars, regVars, envVars, histVars>>
    /\ UNCHANGED soundVars

\* any other WebSocket message (binary, ping, pong): ignored
RecvOther ==
    /\ spc = "select"
    /\ idle
    /\ idle' = FALSE
    /\ ignored' = FALSE
    /\ UNCHANGED <<spc, attempts, outcome, wakeIn, hbIn, inAlert,
                   outConf, written, sessAge, slept, chanVars, dispVars, regVars,
                   envVars, histVars>>
    /\ UNCHANGED soundVars

RecvConfirmationLast ==
    /\ spc = "select"
    /\ conf_q # <<>>
    /\ outConf' = conf_q[Len(conf_q)]
    /\ conf_q' = SubSeq(conf_q, 1, Len(conf_q) - 1)
    /\ idle' = FALSE
    /\ ignored' = FALSE
    /\ spc' = "write_conf"
    /\ UNCHANGED <<attempts, outcome, wakeIn, hbIn, inAlert, written,
                   sessAge, slept, alert_q, dispVars, regVars, envVars, histVars>>
    /\ UNCHANGED soundVars

\* Some(confirmation) = confirmation_rx.recv()
RecvConfirmation ==
    /\ spc = "select"
    /\ conf_q # <<>>
    /\ outConf' = Head(conf_q)
    /\ conf_q' = Tail(conf_q)
    /\ idle' = FALSE
    /\ ignored' = FALSE
    /\ spc' = "write_conf"
    /\ UNCHANGED <<attempts, outcome, wakeIn, hbIn, inAlert, written,
                   sessAge, slept, alert_q, dispVars, regVars, envVars, histVars>>
    /\ UNCHANGED soundVars

WriteConfirmation ==
    /\ spc = "write_conf"
    /\ written' = Write(written, MsgConfirmation(outConf))
    /\ outConf' = NoConf
    /\ spc' = "select"
    /\ ignored' = FALSE
    /\ UNCHANGED <<attempts, outcome, wakeIn, hbIn, inAlert,
                   sessAge, slept, idle, chanVars, dispVars, regVars, envVars,
                   histVars>>
    /\ UNCHANGED soundVars

WriteConfirmationFail ==
    /\ spc = "write_conf"
    /\ Terminate("Failed")
    /\ UNCHANGED <<chanVars, dispVars, regVars, envVars, histVars>>
    /\ UNCHANGED soundVars

\* heartbeat.tick() completes: the interval keeps its schedule (next
\* deadline = previous deadline + period); the branch then awaits
\* write.send(heartbeat).
Heartbeat ==
    /\ spc = "select"
    /\ hbIn <= 0
    /\ hbIn' = hbIn + HeartbeatSecs
    /\ spc' = "write_hb"
    /\ ignored' = FALSE
    /\ UNCHANGED <<attempts, outcome, wakeIn, inAlert, outConf, written,
                   sessAge, slept, idle, chanVars, dispVars, regVars, envVars,
                   histVars>>
    /\ UNCHANGED soundVars

\* write.send(heartbeat) succeeds
WriteHeartbeat ==
    /\ spc = "write_hb"
    /\ written' = Write(written, MsgHeartbeat)
    /\ spc' = "select"
    /\ ignored' = FALSE
    /\ UNCHANGED <<attempts, outcome, wakeIn, hbIn, inAlert, outConf,
                   sessAge, slept, idle, chanVars, dispVars, regVars, envVars,
                   histVars>>
    /\ UNCHANGED soundVars

\* write.send(heartbeat) fails
HeartbeatFail ==
    /\ spc = "write_hb"
    /\ Terminate("Failed")
    /\ UNCHANGED <<chanVars, dispVars, regVars, envVars, histVars>>
    /\ UNCHANGED soundVars

\* ------------------------------------------------------------------ time
\* seconds until the next tick boundary of the heartbeat interval
NextTickIn ==
    IF hbIn > 0 THEN hbIn
    ELSE hbIn + ((0 - hbIn) \div HeartbeatSecs + 1) * HeartbeatSecs

Remaining ==
    (IF InLoop THEN {NextTickIn} ELSE {})
    \cup {t.left : t \in {u \in timers : u.left > 0}}
    \cup (IF spc = "sleeping" /\ wakeIn > 0 THEN {wakeIn} ELSE {})

\* something that is due and able to run at this instant
Urgent ==
    \/ spc = "select" /\ (hbIn <= 0 \/ conf_q # <<>>)
    \/ spc = "send_alert" /\ Len(alert_q) < alertCap
    \/ spc = "sleeping" /\ wakeIn = 0 /\ attempts < MaxAttempts
    \/ lock # NoHolder /\ Len(conf_q) < confCap
    \/ lock = NoHolder /\ \E t \in timers : t.left = 0
    \/ dpc = "recv" /\ alert_q # <<>>
    \/ dpc = "lock" /\ lock = NoHolder

Tick ==
    /\ ~Urgent
    /\ Remaining # {}
    /\ LET d == Min(Remaining) IN
       /\ hbIn' = IF InLoop
                  THEN Greatest(hbIn - d, 0 - MaxMissed * HeartbeatSecs)
                  ELSE hbIn
       /\ sessAge' = IF InLoop THEN Least(sessAge + d, MaxAge) ELSE sessAge
       /\ slept' = IF spc = "sleeping" THEN Least(slept + d, MaxSlept) ELSE slept
       /\ wakeIn' = IF spc = "sleeping" THEN Greatest(wakeIn - d, 0) ELSE wakeIn
       /\ timers' = {[t EXCEPT !.left = Greatest(t.left - d, 0)] : t \in timers}
       /\ regAge' = [i \in Ids |->
                        IF pending[i] # NoAlert
                        THEN Least(regAge[i] + d, TimeoutSecs) ELSE 0]
    /\ UNCHANGED <<spc, attempts, outcome, inAlert, outConf, written, idle,
                   ignored, chanVars, dispVars, pending, lock, envVars, nreg, created,
                   madeT, madeC, lastEvent, lastFire, sent, lastHandle,
                   lastConfirm>>
    /\ UNCHANGED soundVars

Next ==
    \/ Tick
    \/ Reconnect
    \/ Connect
    \/ ConnectFail
    \/ SendRegister
    \/ SendRegisterFail
    \/ \E f \in TextFrames : RecvText(f)
    \/ AlertSend
    \/ RecvClose
    \/ RecvErr
    \/ RecvOther
    \/ RecvConfirmation
    \/ WriteConfirmation
    \/ WriteConfirmationFail
    \/ Heartbeat
    \/ WriteHeartbeat
    \/ HeartbeatFail
    \/ DispRecv
    \/ HandleAlert
    \/ TrackAlert
    \/ \E t \in timers : TimerFire(t)
    \/ \E i \in Ids : ConfirmAlert(i)
    \/ HolderSend

Spec == Init /\ [][Next]_vars

\* The burst scenario: the server sends MaxBurst alerts on one connection
\* that stays up, and the user confirms nothing.
InitBurst ==
    /\ Start
    /\ alertBudget = MaxBurst /\ alertCap = QCap /\ confCap = QCap
    /\ confirmBudget = MaxConfirms

NextBurst ==
    \/ Tick
    \/ Connect
    \/ SendRegister
    \/ \E f \in AlertFrames : RecvText(f)
    \/ AlertSend
    \/ RecvConfirmation
    \/ WriteConfirmation
    \/ Heartbeat
    \/ WriteHeartbeat
    \/ DispRecv
    \/ HandleAlert
    \/ TrackAlert
    \/ \E t \in timers : TimerFire(t)
    \/ HolderSend

SpecBurst == InitBurst /\ [][NextBurst]_vars

\* The queueing scenario: the confirmation channel has room for ConfCapFifo
\* Confirmations, so that no send() is ever suspended.
InitFifo ==
    /\ Start
    /\ alertBudget = MaxAlerts /\ alertCap = QCap /\ confCap = ConfCapFifo
    /\ confirmBudget = MaxConfirms

NextFifo ==
    \/ Tick
    \/ Reconnect
    \/ Connect
    \/ ConnectFail
    \/ SendRegister
    \/ SendRegisterFail
    \/ \E f \in TextFrames : RecvText(f)
    \/ AlertSend
    \/ RecvClose
    \/ RecvErr
    \/ RecvOther
    \/ RecvConfirmation
    \/ WriteConfirmation
    \/ WriteConfirmationFail
    \/ Heartbeat
    \/ WriteHeartbeat
    \/ HeartbeatFail
    \/ DispRecv
    \/ HandleAlert
    \/ TrackAlert
    \/ \E t \in timers : TimerFire(t)
    \/ \E i \in Ids : ConfirmAlert(i)

SpecFifo == InitFifo /\ [][NextFifo]_vars

\* The alert-order scenario: the alert channel has room for AlertCapOrder
\* alerts, so that no alert_tx.send() is ever suspended, and the server may
\* close the connection.
InitOrder ==
    /\ Start
    /\ alertBudget = MaxAlerts /\ alertCap = AlertCapOrder /\ confCap = QCap
    /\ confirmBudget = MaxConfirms

NextOrder ==
    \/ Tick
    \/ Reconnect
    \/ Connect
    \/ SendRegister
    \/ \E f \in AlertFrames : RecvText(f)
    \/ RecvClose
    \/ RecvConfirmation
    \/ WriteConfirmation
    \/ Heartbeat
    \/ WriteHeartbeat
    \/ DispRecv
    \/ HandleAlert
    \/ TrackAlert
    \/ \E t \in timers : TimerFire(t)
    \/ HolderSend

SpecOrder == InitOrder /\ [][NextOrder]_vars


\* The two-calls scenario: one connection that stays up, and the user calls
\* confirm_alert MaxConfirmsFlood times.
InitTwice ==
    /\ Start
    /\ alertBudget = MaxAlerts /\ alertCap = QCap /\ confCap = QCap
    /\ confirmBudget = MaxConfirmsFlood

NextTwice ==
    \/ Tick
    \/ Connect
    \/ SendRegister
    \/ \E f \in AlertFrames : RecvText(f)
    \/ AlertSend
    \/ RecvConfirmation
    \/ WriteConfirmation
    \/ Heartbeat
    \/ WriteHeartbeat
    \/ DispRecv
    \/ HandleAlert
    \/ TrackAlert
    \/ \E t \in timers : TimerFire(t)
    \/ \E i \in Ids : ConfirmAlert(i)
    \/ HolderSend

SpecTwice == InitTwice /\ [][NextTwice]_vars

\* The flood scenario: the server sends MaxFlood alerts on one connection
\* while the user confirms alerts; both channels have room for QCap items
\* and no time passes.
InitFlood ==
    /\ Start
    /\ alertBudget = MaxFlood /\ alertCap = QCap /\ confCap = QCap
    /\ confirmBudget = MaxConfirmsFlood

NextFlood ==
    \/ Connect
    \/ SendRegister
    \/ Heartbeat
    \/ WriteHeartbeat
    \/ \E f \in AlertFrames : RecvText(f)
    \/ AlertSend
    \/ RecvConfirmation
    \/ WriteConfirmation
    \/ DispRecv
    \/ HandleAlert
    \/ TrackAlert
    \/ \E i \in Ids : ConfirmAlert(i)
    \/ HolderSend

SpecFlood == InitFlood /\ [][NextFlood]_vars

\* The sound scenario: on one connection the server sends MaxSounds alerts
\* of every level, with and without a sound_file; no time passes and nobody
\* confirms.
InitSound ==
    /\ Start
    /\ alertBudget = MaxSounds /\ alertCap = QCap /\ confCap = QCap
    /\ confirmBudget = MaxConfirms

NextSound ==
    \/ Connect
    \/ SendRegister
    \/ \E f \in SoundFrames : RecvText(f)
    \/ AlertSend
    \/ Heartbeat
    \/ WriteHeartbeat
    \/ DispRecv
    \/ HandleAlert
    \/ TrackAlert

SpecSound == InitSound /\ [][NextSound]_vars

\* ================================================================ claims
IsPending(i) == pending[i] # NoAlert
One(b) == IF b THEN 1 ELSE 0

\* Confirmations for id i that are in the outbound queue, in a suspended
\* send() or being written
InFlight(i) ==
    Cardinality({k \in 1..Len(conf_q) : conf_q[k].alert_id = i})
    + One(lock.conf.alert_id = i) + One(outConf.alert_id = i)

\* C1: when confirm_alert(id) and the timeout task of id act on one pending
\* entry, exactly one of them removes it and sends a Confirmation: every
\* entry that was created and is gone has produced exactly one Confirmation
\* (never two, never none), and a timeout task whose sleep was over when
\* confirm_alert took the single entry finds it absent and sends nothing.
C1_RaceExactlyOne ==
    /\ \A i \in Ids :
          /\ madeT[i] + madeC[i] + One(IsPending(i)) = created[i]
          /\ InFlight(i) <= madeT[i] + madeC[i]
    /\ (lastFire.raced /\ created[lastFire.id] = 1) =>
          /\ ~lastFire.found
          /\ madeC[lastFire.id] = 1
          /\ madeT[lastFire.id] = 0

C1_Witness ==
    /\ lastFire.raced
    /\ ~lastFire.found
    /\ created[lastFire.id] = 1
    /\ madeC[lastFire.id] = 1
    /\ madeT[lastFire.id] = 0

\* C2: a text frame that fails to decode, received in the select loop,
\* leaves the session in the select loop (the frame alone is dropped).
C2_MalformedKeepsSession ==
    [][\A f \in MalformedFrames : RecvText(f) => spc' = "select"]_vars

\* C3: a pending entry always has a timeout task armed for its id, and when
\* a timeout task runs and finds its id pending it removes exactly that id
\* (the count drops by one) and sends exactly one Confirmation for it into
\* the outbound queue (the send stays suspended while the queue is full),
\* whatever the session is doing.
C3_Step ==
    \A t \in timers :
       (TimerFire(t) /\ IsPending(t.id)) =>
          /\ pending' = [pending EXCEPT ![t.id] = NoAlert]
          /\ Cardinality({i \in Ids : pending'[i] # NoAlert})
                = Cardinality({i \in Ids : IsPending(i)}) - 1
          /\ \/ conf_q' = Append(conf_q, Confirmation(t.id)) /\ lock' = NoHolder
             \/ /\ Len(conf_q) = confCap
                /\ conf_q' = conf_q
                /\ lock' = [kind |-> "timer", conf |-> Confirmation(t.id)]

C3_Armed == \A i \in Ids : IsPending(i) => \E t \in timers : t.id = i

C3_TimeoutConfirms == [](C3_Armed) /\ [][C3_Step]_vars

C3_Witness ==
    /\ lastFire.found
    /\ ~lastFire.connected
    /\ madeC[lastFire.id] = 0
    /\ madeT[lastFire.id] = 1
    /\ ~IsPending(lastFire.id)
    /\ \E k \in 1..Len(conf_q) : conf_q[k] = Confirmation(lastFire.id)

\* C4: the timeout task armed by a registration that confirm_alert resolved
\* finds nothing when it runs (it sends no Confirmation and leaves the
\* registry as it is).
C4_ConfirmedTimerIdle == lastFire.confirmed => ~lastFire.found

\* C5: the timeout path removes an entry no earlier than 300 seconds after
\* the insert that made the entry stored under the id.
C5_NotBeforeTimeout == lastFire.found => lastFire.age >= TimeoutSecs

\* C6: an id is in the registry exactly when the last thing that happened
\* to it is that handle_alert handled an alert with requires_confirmation
\* for it (no confirm_alert and no timeout has resolved it since); what is
\* stored is that alert, so an alert without requires_confirmation never
\* adds an entry.
C6_PendingIffUnresolved ==
    \A i \in Ids :
       /\ IsPending(i) <=> lastEvent[i] = "handled"
       /\ IsPending(i) => pending[i] = [id |-> i, requires_confirmation |-> TRUE,
                                        level |-> "Info", sound_file |-> None]

C6_Witness ==
    /\ nAlertsIn = 2
    /\ nreg = 1
    /\ dpc = "recv"
    /\ alert_q = <<>>
    /\ spc # "send_alert"
    /\ \E i \in Ids : IsPending(i) /\ lastEvent[i] = "handled"

\* C7: whenever an attempt has ended, Closed or Failed, run() is in a sleep
\* of 5 seconds whatever the number of the attempt; the next attempt starts
\* when exactly those 5 seconds have passed, and the session it opens
\* registers with the configured client_id.
C7_Sleeping ==
    spc = "sleeping" =>
       /\ outcome \in {"Closed", "Failed"}
       /\ \/ slept + wakeIn = ReconnectSecs
          \/ attempts = MaxAttempts /\ wakeIn = 0 /\ slept >= ReconnectSecs
       /\ (wakeIn = 0 /\ attempts < MaxAttempts) => ENABLED Reconnect

C7_Registers ==
    InLoop =>
       /\ Len(written) >= 1
       /\ written[1].type = "register"
       /\ written[1].body.client_id = ClientId

C7_Restart ==
    (spc = "sleeping" /\ spc' # "sleeping") =>
       /\ slept = ReconnectSecs
       /\ spc' = "connecting"
       /\ attempts' = attempts + 1

C7_FixedDelayReconnect ==
    [](C7_Sleeping /\ C7_Registers) /\ [][C7_Restart]_vars

C7_Witness ==
    /\ attempts = MaxAttempts
    /\ spc = "select"
    /\ written[1] = Encode(MsgRegister)

\* C8: a step in which the session ends, sleeps, reconnects, connects or
\* sends its Register leaves the pending registry, the timeout tasks, the
\* inbound alert queue and the outbound confirmation queue as they are.
C8_Lifecycle ==
    \/ spc' = "sleeping" /\ spc # "sleeping"
    \/ spc = "sleeping"
    \/ spc \in {"connecting", "registering"}

C8_ReconnectKeepsRegistry ==
    [][C8_Lifecycle /\ spc' # spc
          => UNCHANGED <<pending, timers, alert_q, conf_q>>]_vars

C8_Witness ==
    /\ attempts = 2
    /\ spc = "select"
    /\ Len(written) >= 1
    /\ conf_q # <<>>
    /\ \E i \in Ids : IsPending(i) /\ regAge[i] > sessAge + ReconnectSecs

\* C9: a session that has been in its select loop for 60 to 65 seconds with
\* no inbound frame and no outbound confirmation, and whose heartbeat is not
\* due, has written exactly two Heartbeat frames.
HeartbeatsWritten ==
    Cardinality({k \in 1..Len(written) : written[k].type = "heartbeat"})

C9_TwoHeartbeats ==
    (spc = "select" /\ idle /\ hbIn > 0 /\ sessAge >= 60 /\ sessAge <= 65)
       => HeartbeatsWritten = 2

\* C10: while the session is in its loop and is not waiting for a write on
\* the socket, no time passes with a heartbeat tick due: the tick is taken at
\* its instant, whatever the state of the inbound alert queue.
C10_HeartbeatOnTime ==
    [][~(spc \in {"select", "send_alert"} /\ hbIn <= 0 /\ Tick)]_vars

\* C11: the frames written on a connection begin with the Register frame
\* carrying the configured client_id and hostname, and hold exactly one
\* Register: nothing is written before the Register is sent, and once the
\* session is in its loop no Confirmation or Heartbeat stands before the
\* Register, also when Confirmations were queued before the connection.
RegistersWritten ==
    Cardinality({k \in 1..Len(written) : written[k].type = "register"})

C11_RegisterFirst ==
    /\ spc = "registering" => written = <<>>
    /\ written # <<>> =>
          /\ written[1] = Encode(MsgRegister)
          /\ written[1].body = [client_id |-> ClientId, hostname |-> Hostname]
          /\ RegistersWritten = 1
    /\ InLoop => written # <<>>

C11_Witness ==
    /\ spc = "select"
    /\ lastFire.found
    /\ ~lastFire.connected
    /\ madeT[lastFire.id] + madeC[lastFire.id] = 1
    /\ Len(written) >= 2
    /\ written[1] = Encode(MsgRegister)
    /\ written[2] = Encode(MsgConfirmation(Confirmation(lastFire.id)))

\* C12: the Confirmations written on the current connection, then the one
\* the session has taken from the queue, then the ones still queued, are
\* together the most recently enqueued Confirmations in the order they were
\* enqueued: none overtakes one enqueued before it.  (A frame is written
\* whole; a Heartbeat is written only from the select loop, between two
\* writes.)
IdsWritten ==
    LET cs == SelectSeq(written, LAMBDA f : f.type = "confirmation")
    IN  [k \in 1..Len(cs) |-> cs[k].body.alert_id]

IdsInHand == IF outConf = NoConf THEN <<>> ELSE <<outConf.alert_id>>

IdsQueued == [k \in 1..Len(conf_q) |-> conf_q[k].alert_id]

IsSuffix(a, b) ==
    /\ Len(a) <= Len(b)
    /\ a = SubSeq(b, Len(b) - Len(a) + 1, Len(b))

C12_ConfirmationsFifo ==
    /\ IsSuffix(IdsInHand \o IdsQueued, sent)
    /\ (InLoop /\ Len(written) < MaxLog)
          => IsSuffix(IdsWritten \o IdsInHand \o IdsQueued, sent)

C12_Witness ==
    /\ spc = "select"
    /\ Len(sent) = 2
    /\ sent[1] # sent[2]
    /\ IdsWritten = sent
    /\ lastFire.found
    /\ ~lastFire.connected
    /\ lastFire.id = sent[2]

\* C13: a confirm_alert call for an id that is not in the registry returns
\* Ok, sends no Confirmation and leaves the registry (and the timeout tasks)
\* as they are.
C13_Step ==
    \A i \in Ids :
       (ConfirmAlert(i) /\ ~IsPending(i)) =>
          /\ lastConfirm' = [id |-> i, found |-> FALSE, ret |-> "Ok"]
          /\ UNCHANGED <<pending, timers, conf_q, lock, sent, madeC, madeT>>

C13_ConfirmMiss ==
    /\ [](~lastConfirm.found => lastConfirm.ret \in {"none", "Ok"})
    /\ [][C13_Step]_vars

C13_Witness ==
    /\ lastConfirm.id \in Ids
    /\ ~lastConfirm.found
    /\ lastConfirm.ret = "Ok"
    /\ nConfirmCalls = 2
    /\ created[lastConfirm.id] = 1
    /\ madeC[lastConfirm.id] = 1
    /\ madeT[lastConfirm.id] = 0
    /\ ~IsPending(lastConfirm.id)

\* C14: every handle_alert call on an alert with requires_confirmation
\* stores the alert in the registry, arms a timeout task of 300 seconds for
\* its id and returns Ok, whether sound and notification succeeded or
\* failed.
C14_Step ==
    (dpc # "recv" /\ dAlert.requires_confirmation /\ dpc' = "recv") =>
       /\ pending' = [pending EXCEPT ![dAlert.id] = dAlert]
       /\ \E t \in timers' \ timers : t.id = dAlert.id /\ t.left = TimeoutSecs
       /\ lastHandle'.ret = "Ok"

C14_PresentationDecoupled ==
    /\ [](lastHandle.ret \in {"none", "Ok"})
    /\ [][C14_Step]_vars

C14_Witness ==
    /\ lastHandle.failed
    /\ lastHandle.ret = "Ok"
    /\ nAlertsIn = 1
    /\ nreg = 1
    /\ dpc = "recv"
    /\ alert_q = <<>>
    /\ spc # "send_alert"
    /\ \E i \in Ids :
          /\ IsPending(i)
          /\ \E t \in timers : t.id = i /\ t.left = TimeoutSecs

\* C15: an attempt moves only Connecting -> Registered/Active -> Closed or
\* Failed, or Connecting -> Failed.  A failure before the loop ends it Failed
\* with no frame written; a Close frame or the end of the stream ends it
\* Closed; a read or write error ends it Failed; once it has ended nothing
\* more is written on its connection, and the only way on is a new attempt
\* of run().
C15_Phase ==
    CASE spc \in {"connecting", "registering"} -> "Connecting"
      [] InLoop -> "Active"
      [] OTHER -> outcome

C15_Step ==
    /\ spc = "connecting" =>
          \/ spc' = "connecting"
          \/ spc' = "registering" /\ written' = <<>>
          \/ spc' = "sleeping" /\ outcome' = "Failed" /\ written' = written
    /\ spc = "registering" =>
          \/ spc' = "registering"
          \/ spc' = "select" /\ written' = <<Encode(MsgRegister)>>
          \/ spc' = "sleeping" /\ outcome' = "Failed" /\ written' = <<>>
    /\ InLoop =>
          \/ InLoop'
          \/ /\ spc' = "sleeping"
             /\ outcome' \in {"Closed", "Failed"}
             /\ written' = written
    /\ spc = "sleeping" =>
          /\ written' = written
          /\ \/ spc' = "sleeping" /\ outcome' = outcome
             \/ spc' = "connecting" /\ attempts' = attempts + 1
    /\ attempts' # attempts => spc = "sleeping"
    /\ RecvClose => outcome' = "Closed"
    /\ (RecvErr \/ WriteConfirmationFail \/ HeartbeatFail
          \/ ConnectFail \/ SendRegisterFail) => outcome' = "Failed"

C15_AttemptStateMachine ==
    /\ [](C15_Phase \in {"Connecting", "Active", "Closed", "Failed"})
    /\ [][C15_Step]_vars

C15_Witness ==
    /\ attempts = 2
    /\ spc = "sleeping"
    /\ outcome = "Closed"
    /\ Len(written) >= 2
    /\ written[1] = Encode(MsgRegister)
    /\ slept > 0

\* C16: a timeout task ends only by running: no step of the session (its
\* end, the sleep, the reconnect) removes one.  A task whose sleep is over
\* runs as soon as the registry lock is free, whatever the session is doing;
\* when it runs with no session connected and finds its id pending it
\* removes the entry and sends the Confirmation to the outbound queue.  A
\* Confirmation written on a connection stands after that connection's
\* Register.
TimerSerials == {t.n : t \in timers}

C16_Step ==
    /\ \A n \in TimerSerials \ TimerSerials' :
          \E t \in timers : t.n = n /\ TimerFire(t)
    /\ \A t \in timers :
          (TimerFire(t) /\ spc \in {"sleeping", "connecting", "registering"}
             /\ IsPending(t.id)) =>
                /\ pending'[t.id] = NoAlert
                /\ \/ conf_q' = Append(conf_q, Confirmation(t.id))
                   \/ lock'.conf = Confirmation(t.id)

C16_State ==
    /\ \A t \in timers : (t.left = 0 /\ lock = NoHolder) => ENABLED TimerFire(t)
    /\ \A k \in 1..Len(written) :
          written[k].type = "confirmation" =>
             k > 1 /\ written[1] = Encode(MsgRegister)

C16_TimersOutliveSession == [](C16_State) /\ [][C16_Step]_vars

C16_Witness ==
    /\ attempts = 2
    /\ spc = "select"
    /\ lastFire.found
    /\ ~lastFire.connected
    /\ lastFire.age = TimeoutSecs
    /\ timers = {}
    /\ conf_q = <<>>
    /\ Len(written) >= 2
    /\ \E k \in 2..Len(written) :
          written[k] = Encode(MsgConfirmation(Confirmation(lastFire.id)))

\* C17: the alert the dispatcher has in hand, then the alerts in the alert
\* channel, then the alert the session is still sending, are together the
\* most recently received alerts in the order of their frames.  This chain
\* grows only by the alert of a frame that is received, at its end, and
\* shrinks only when handle_alert finishes the alert at its front: every
\* alert is handled once, in the order received, also when the session ends
\* and another one starts in between.
AlertsInHand == IF dpc # "recv" THEN <<dAlert>> ELSE <<>>

AlertsBlocked == IF spc = "send_alert" THEN <<inAlert>> ELSE <<>>

AlertChain == AlertsInHand \o alert_q \o AlertsBlocked

C17_Step ==
    /\ Len(AlertChain') < Len(AlertChain) =>
          /\ dpc # "recv"
          /\ dpc' = "recv"
          /\ AlertChain' = Tail(AlertChain)
    /\ Len(AlertChain') > Len(AlertChain) =>
          /\ recvd' = Append(recvd, recvd'[Len(recvd')])
          /\ AlertChain' = Append(AlertChain, recvd'[Len(recvd')])
    /\ Len(AlertChain') = Len(AlertChain) => AlertChain' = AlertChain
    /\ recvd' # recvd => Len(AlertChain') > Len(AlertChain)

C17_AlertsInOrder ==
    /\ [](IsSuffix(AlertChain, recvd) /\ Len(recvd) = nAlertsIn)
    /\ [][C17_Step]_vars

C17_Witness ==
    /\ attempts = 2
    /\ spc = "select"
    /\ idle
    /\ Len(recvd) = 2
    /\ AlertChain = <<>>
    /\ recvd[1] # recvd[2]
    /\ recvd[2].requires_confirmation
    /\ \E t \in timers : t.id = recvd[2].id /\ t.left = TimeoutSecs

\* C18: a handle_alert call for an id that is already pending leaves the
\* number of entries as it is, with the new alert stored under the id; and
\* when an id was registered twice for one entry, the Confirmations made for
\* it plus the entry, if it is still there, are exactly one: one resolution
\* gives one Confirmation, and the timeout task of the other registration
\* gives none.
C18_TwiceOneEntry(i) ==
    /\ nreg = 2
    /\ created[i] = 1
    /\ \A j \in Ids \ {i} : created[j] = 0

C18_Step ==
    (dpc = "lock" /\ dpc' = "recv" /\ dAlert.requires_confirmation
        /\ IsPending(dAlert.id)) =>
       /\ Cardinality({i \in Ids : pending'[i] # NoAlert})
             = Cardinality({i \in Ids : IsPending(i)})
       /\ pending' = [pending EXCEPT ![dAlert.id] = dAlert]

C18_State ==
    \A i \in Ids :
       C18_TwiceOneEntry(i) =>
          /\ madeT[i] + madeC[i] + One(IsPending(i)) = 1
          /\ Cardinality({k \in 1..Len(sent) : sent[k] = i})
                + One(lock.conf.alert_id = i) = madeT[i] + madeC[i]

C18_ReRegistration == [](C18_State) /\ [][C18_Step]_vars

C18_Witness ==
    /\ \E i \in Ids :
          /\ C18_TwiceOneEntry(i)
          /\ ~IsPending(i)
          /\ madeT[i] + madeC[i] = 1
          /\ sent = <<i>>
    /\ timers = {}
    /\ lock = NoHolder

\* C19: a Register or Confirmation frame received by an Active session is
\* ignored. In every Active state each such frame can be received and
\* ignored, and the step that ignores it keeps the session in its select
\* loop and leaves the alert queue, the confirmation queue, the dispatcher,
\* the pending registry, its timeout tasks and the frames written on the
\* connection as they were.
C19_Step ==
    (~ignored /\ ignored') =>
       /\ spc = "select"
       /\ spc' = "select"
       /\ UNCHANGED <<attempts, outcome, wakeIn, hbIn, inAlert, outConf,
                      written, sessAge, slept, chanVars, dispVars, regVars,
                      envVars, histVars>>

C19_State ==
    /\ spc = "select" =>
          \A f \in UnexpectedFrames : ENABLED (RecvText(f) /\ ignored')
    /\ ignored => spc = "select"

C19_UnexpectedIgnored == [](C19_State) /\ [][C19_Step]_vars

C19_Witness ==
    /\ ignored
    /\ spc = "select"
    /\ \E i \in Ids : IsPending(i)
    /\ alert_q # <<>>
    /\ written # <<>>

\* C20: the file name handle_alert passes to play_sound_async is the alert's
\* sound_file when there is one, the empty string included; when there is
\* none it is alarm_critical.wav for Emergency and for Critical,
\* alarm_warning.wav for Warning and notification.wav for Info.
C20_SoundFile ==
    \A k \in 1..Len(played) :
       LET c == played[k] IN
       /\ c.sound_file # None => c.filename = c.sound_file[1]
       /\ c.sound_file = None =>
             /\ c.level = "Emergency" => c.filename = "alarm_critical.wav"
             /\ c.level = "Critical" => c.filename = "alarm_critical.wav"
             /\ c.level = "Warning" => c.filename = "alarm_warning.wav"
             /\ c.level = "Info" => c.filename = "notification.wav"

C20_Witness ==
    /\ Len(played) = 2
    /\ played[1] = [level |-> "Emergency", sound_file |-> None,
                    filename |-> "alarm_critical.wav"]
    /\ played[2] = [level |-> "Critical", sound_file |-> Some("notification.wav"),
                    filename |-> "notification.wav"]

\* C21: there is no state in which the session is suspended sending an
\* alert into the full alert channel, the dispatcher holds an alert that
\* requires confirmation and waits for the registry lock, and the holder of
\* the lock is suspended sending into the full confirmation channel.
C21_Blocked ==
    /\ spc = "send_alert"
    /\ Len(alert_q) >= alertCap
    /\ dpc = "lock"
    /\ lock # NoHolder
    /\ Len(conf_q) >= confCap

C21_NoDeadlock == ~C21_Blocked

\* once the three tasks wait for each other, they do so for ever
C21_BlockedForEver == [][C21_Blocked => C21_Blocked']_vars

\* C22: no Confirmation is lost on its way from the confirmation channel to
\* the transport. The channel changes only by a Confirmation entering at its
\* end or by the session taking its first one, and a Confirmation the
\* session has taken leaves its hands only by being written on the
\* connection; so every Confirmation that entered the channel is in the
\* channel, in the session's hands or written, and what is not yet written
\* can still be written by this session or a later one.
C22_Step ==
    /\ conf_q' # conf_q =>
          \/ Len(conf_q') = Len(conf_q) + 1
                /\ SubSeq(conf_q', 1, Len(conf_q)) = conf_q
          \/ /\ conf_q # <<>>
             /\ conf_q' = Tail(conf_q)
             /\ outConf' = Head(conf_q)
    /\ (outConf # NoConf /\ outConf' # outConf) =>
          /\ outConf' = NoConf
          /\ written' = Write(written, MsgConfirmation(outConf))
          /\ spc' = "select"

C22_NoConfirmationLost == [][C22_Step]_vars

\* C23: every Confirmation in the confirmation channel, in the session's
\* hands or written on the connection carries the configured client_id and
\* the id of an alert for which handle_alert made a registry entry; an entry
\* is made only by handle_alert for an alert with requires_confirmation, as
\* part of a registration; and for each id the Confirmations that entered
\* the channel are no more than the entries made for it, so no more than
\* its registrations.
C23_Confirmations ==
    {conf_q[k] : k \in 1..Len(conf_q)}
    \cup (IF outConf = NoConf THEN {} ELSE {outConf})
    \cup {written[k].body :
             k \in {j \in 1..Len(written) : written[j].type = "confirmation"}}

C23_Enqueued(i) == Cardinality({k \in 1..Len(sent) : sent[k] = i})

C23_State ==
    /\ \A c \in C23_Confirmations :
          /\ c.client_id = ClientId
          /\ c.alert_id \in Ids
          /\ created[c.alert_id] >= 1
    /\ \A i \in Ids : C23_Enqueued(i) <= created[i]
    /\ \A i \in Ids : created[i] <= nreg

C23_Step ==
    \A i \in Ids :
       created'[i] # created[i] =>
          /\ created'[i] = created[i] + 1
          /\ dpc = "lock"
          /\ dAlert.id = i
          /\ dAlert.requires_confirmation
          /\ nreg' = nreg + 1
          /\ pending'[i] = dAlert

C23_ConfirmationsGenuine == [](C23_State) /\ [][C23_Step]_vars

C23_Witness ==
    \E i \in Ids :
       /\ created[i] = 2
       /\ C23_Enqueued(i) = 2
       /\ \E k \in 1..Len(written) : written[k] = Encode(MsgConfirmation(Confirmation(i)))
       /\ conf_q = <<Confirmation(i)>>

====
